---- MODULE Spec2Model ----
(***************************************************************************)
(* The aws_neptune_cluster_endpoint resource                               *)
(* (aws/resource_aws_neptune_cluster_endpoint.go): its four lifecycle      *)
(* callbacks Create, Read, Update, Delete and the passthrough importer,    *)
(* run one at a time by the plugin framework against the Neptune API.      *)
(*                                                                         *)
(* The Neptune API, the finder, the waiters and the tag service are the    *)
(* environment: every call's outcome is drawn from a small set.  Each      *)
(* callback is one action; the calls it made, in order, are kept in        *)
(* last.res.calls, with the ResourceData before and after.                 *)
(***************************************************************************)
EXTENDS Integers, Sequences, FiniteSets, TLC

VARIABLES
    meta,    \* the AWSClient: partition, DefaultTagsConfig, IgnoreTagsConfig
    d,       \* the schema.ResourceData: id, isNew, attrs
    phase,   \* "idle", a planned callback ("create", "update", "import"), or one
             \* that returned ("ran", "imported")
    changed, \* the attributes the planned diff changes (d.HasChange)
    last     \* the last callback run: its name, inputs, environment and result

vars == <<meta, d, phase, changed, last>>

----------------------------------------------------------------------------
(* Bounds of the model *)

\* longest member list a describe response carries
MaxMembers == 1
\* most tags in a listed or configured tag map
MaxTags == 1

----------------------------------------------------------------------------
(* Values *)

AwsPartitionID == "aws"
Partitions == {AwsPartitionID, "aws-us-gov"}

NoError == "nil"
ErrCodeDBClusterEndpointNotFoundFault == "DBClusterEndpointNotFoundFault"
ErrCodeDBClusterNotFoundFault == "DBClusterNotFoundFault"
OtherFault == "InvalidDBClusterEndpointStateFault"
NotFoundError == "resource.NotFoundError"

\* what a request or an availability poll can return
CallErrors == {NoError, OtherFault}
\* what the delete request and the deletion poll can return
DeleteErrors == {NoError, ErrCodeDBClusterEndpointNotFoundFault,
                 ErrCodeDBClusterNotFoundFault, OtherFault}
\* what finder.EndpointById can return
FindErrors == {NoError, NotFoundError, OtherFault}

\* (cluster identifier, endpoint identifier) pairs
IdPairs == {<<"c1", "e1">>, <<"c2", "e2">>}
EndpointTypes == {"READER", "ANY"}
Members == {"i1"}
MemberLists == UNION {[1..n -> Members] : n \in 0..MaxMembers}
MemberSets == SUBSET Members

AwsTagKeyPrefix == "aws:"
TagNames == {"s", "Name", "Env", "Ign"}
TagPairs == {<<AwsTagKeyPrefix \o "s", "v">>, <<"Name", "v">>,
             <<"Env", "v">>, <<"Ign", "v">>}
TagMaps == {t \in SUBSET TagPairs : Cardinality(t) <= MaxTags}
ConfigTagMaps == {t \in TagMaps : t \subseteq {<<"Name", "v">>}}
DefaultTagMaps == {t \in TagMaps : t \subseteq {<<"Env", "v">>}}
IgnoreTagKeys == {"Ign"}

Range(s) == {s[i] : i \in DOMAIN s}
Keys(tags) == {p[1] : p \in tags}

----------------------------------------------------------------------------
(* Helper packages *)

\* tfresource.NotFound: the error is a resource.NotFoundError
NotFound(err) == err = NotFoundError

\* tfawserr.ErrCodeEquals
ErrCodeEquals(err, code) == err = code

\* KeyValueTags.IgnoreAws: drops the keys with the aws: prefix
IgnoreAws(tags) ==
    {p \in tags : ~\E n \in TagNames : p[1] = AwsTagKeyPrefix \o n}

\* KeyValueTags.IgnoreConfig: drops the keys the provider is told to ignore
IgnoreConfig(tags, ignoreKeys) == {p \in tags : p[1] \notin ignoreKeys}

\* KeyValueTags.RemoveDefaultConfig: drops the tags equal to a provider default
RemoveDefaultConfig(tags, defaults) == tags \ defaults

\* DefaultTagsConfig.MergeTags: the defaults, overridden by the resource's tags
MergeTags(defaults, tags) ==
    {p \in defaults : p[1] \notin Keys(tags)} \cup tags

\* flattenStringSet: a list of strings as a schema.Set
flattenStringSet(list) == Range(list)

\* expandStringSet: a schema.Set as the strings of a request
expandStringSet(set) == set

----------------------------------------------------------------------------
(* ResourceData *)

NoAttrs ==
    [arn |-> "", cluster_identifier |-> "", cluster_endpoint_identifier |-> "",
     endpoint |-> "", endpoint_type |-> "", static_members |-> {},
     excluded_members |-> {}, tags |-> {}, tags_all |-> {}]

NoResource == [id |-> "", isNew |-> FALSE, attrs |-> NoAttrs]

SetId(dd, id) == [dd EXCEPT !.id = id]

Call(api, arg, out) == [api |-> api, arg |-> arg, out |-> out]

Result(dd, err, calls, readPre, readRan) ==
    [d |-> dd, err |-> err, calls |-> calls, readPre |-> readPre, readRan |-> readRan]

Apis(calls) == {calls[i].api : i \in DOMAIN calls}

----------------------------------------------------------------------------
(* The environment: what the calls of one callback return *)

\* a neptune.DBClusterEndpoint, as DescribeDBClusterEndpoints returns it
DBClusterEndpoint(pair, ctype, static, excluded) ==
    [DBClusterEndpointIdentifier |-> pair[2],
     DBClusterIdentifier |-> pair[1],
     EndpointType |-> "CUSTOM",
     CustomEndpointType |-> ctype,
     Endpoint |-> pair[2] \o ".neptune.amazonaws.com",
     ExcludedMembers |-> excluded,
     StaticMembers |-> static,
     DBClusterEndpointArn |-> "arn:" \o pair[1] \o ":" \o pair[2]]

\* the endpoints the API can describe
Responses ==
    {DBClusterEndpoint(p, t, sx[1], sx[2]) :
        p \in IdPairs, t \in EndpointTypes,
        sx \in {y \in MemberLists \X MemberLists : y[1] = <<>> \/ y[2] = <<>>}}

NoResponse == DBClusterEndpoint(<<"", "">>, "", <<>>, <<>>)

ReadEnv(find, resp, list, listed) ==
    [find |-> find, resp |-> resp, list |-> list, listed |-> listed]

NoReadEnv == ReadEnv(NoError, NoResponse, NoError, {})

\* the outcomes of the calls of one Read
ReadEnvs ==
    {ReadEnv(f, NoResponse, NoError, {}) : f \in FindErrors \ {NoError}}
    \cup {ReadEnv(NoError, r, OtherFault, {}) : r \in Responses}
    \cup {ReadEnv(NoError, r, NoError, t) : r \in Responses, t \in TagMaps}

CreateOutput(pair) ==
    [DBClusterIdentifier |-> pair[1], DBClusterEndpointIdentifier |-> pair[2]]

NoEnv ==
    [create |-> NoError, out |-> CreateOutput(<<"", "">>), wait |-> NoError,
     modify |-> NoError, tagsUpd |-> NoError,
     del |-> NoError, delWait |-> NoError, read |-> NoReadEnv]

\* the part of an environment no call of the callback asked for is left at NoEnv
Unasked(e, calls) ==
    LET apis == Apis(calls)
        made(api) == \E i \in DOMAIN calls : calls[i].api = api /\ calls[i].out = NoError
    IN [create |-> IF "CreateDBClusterEndpoint" \in apis THEN e.create ELSE NoEnv.create,
        out |-> IF made("CreateDBClusterEndpoint") THEN e.out ELSE NoEnv.out,
        wait |-> IF "waiter.DBClusterEndpointAvailable" \in apis THEN e.wait ELSE NoEnv.wait,
        modify |-> IF "ModifyDBClusterEndpoint" \in apis THEN e.modify ELSE NoEnv.modify,
        tagsUpd |-> IF "NeptuneUpdateTags" \in apis THEN e.tagsUpd ELSE NoEnv.tagsUpd,
        del |-> IF "DeleteDBClusterEndpoint" \in apis THEN e.del ELSE NoEnv.del,
        delWait |-> IF "waiter.DBClusterEndpointDeleted" \in apis THEN e.delWait ELSE NoEnv.delWait,
        read |-> ReadEnv(
            IF "finder.EndpointById" \in apis THEN e.read.find ELSE NoError,
            IF made("finder.EndpointById") THEN e.read.resp ELSE NoResponse,
            IF "NeptuneListTags" \in apis THEN e.read.list ELSE NoError,
            IF made("NeptuneListTags") THEN e.read.listed ELSE {})]

\* e holds an outcome for each call the callback made, and nothing else
Asked(e, r) ==
    /\ e = Unasked(e, r.calls)
    /\ r.readRan => e.read \in ReadEnvs
    /\ (\E i \in DOMAIN r.calls : r.calls[i] = Call("CreateDBClusterEndpoint", r.calls[i].arg, NoError))
          => e.out \in {CreateOutput(p) : p \in IdPairs}

----------------------------------------------------------------------------
(* resourceAwsNeptuneClusterEndpointRead *)

\* a variant of ReadNotFoundClears that forgets IsNewResource
ReadNotFoundClears_AnyResource(dd, err) == NotFound(err)

\* line 122: the lookup found nothing and the resource is not new
ReadNotFoundClears(dd, err) == ~dd.isNew /\ NotFound(err)

\* a variant of ReadDescribeError that clears the ID on every lookup error
ReadDescribeError_ClearsId(dd) == SetId(dd, "")

\* lines 128-130: any other lookup error is returned, the data as it is
ReadDescribeError(dd) == dd

\* a variant of SetFromResponse that reads EndpointType for endpoint_type
SetFromResponse_EndpointType(attrs, resp) ==
    [attrs EXCEPT
        !.cluster_endpoint_identifier = resp.DBClusterEndpointIdentifier,
        !.cluster_identifier = resp.DBClusterIdentifier,
        !.endpoint_type = resp.EndpointType,
        !.endpoint = resp.Endpoint,
        !.excluded_members = flattenStringSet(resp.ExcludedMembers),
        !.static_members = flattenStringSet(resp.StaticMembers),
        !.arn = resp.DBClusterEndpointArn]

\* lines 132-140: the attributes set from the describe response
SetFromResponse(attrs, resp) ==
    [attrs EXCEPT
        !.cluster_endpoint_identifier = resp.DBClusterEndpointIdentifier,
        !.cluster_identifier = resp.DBClusterIdentifier,
        !.endpoint_type = resp.CustomEndpointType,
        !.endpoint = resp.Endpoint,
        !.excluded_members = flattenStringSet(resp.ExcludedMembers),
        !.static_members = flattenStringSet(resp.StaticMembers),
        !.arn = resp.DBClusterEndpointArn]

\* a variant of ReadTagsSupported that lists tags in every partition
ReadTagsSupported_EveryPartition(m) == TRUE

\* line 143: tags are read in AWS Commercial only
ReadTagsSupported(m) == m.partition = AwsPartitionID

\* lines 150-159: tags and tags_all from the listed tags
SetListedTags(attrs, listed, m) ==
    LET tags == IgnoreConfig(IgnoreAws(listed), m.ignoreTags)
    IN [attrs EXCEPT
           !.tags = RemoveDefaultConfig(tags, m.defaultTags),
           !.tags_all = tags]

\* lines 161-162: d.Set("tags", nil), d.Set("tags_all", nil); a nil map reads
\* back as the empty map
SetNilTags(attrs) == [attrs EXCEPT !.tags = {}, !.tags_all = {}]

resourceAwsNeptuneClusterEndpointRead(dd, m, e) ==
    LET find == Call("finder.EndpointById", dd.id, e.find)
    IN IF ReadNotFoundClears(dd, e.find)
       THEN Result(SetId(dd, ""), FALSE, <<find>>, dd, TRUE)
       ELSE IF e.find # NoError
       THEN Result(ReadDescribeError(dd), TRUE, <<find>>, dd, TRUE)
       ELSE
         LET d1 == [dd EXCEPT !.attrs = SetFromResponse(dd.attrs, e.resp)]
             list == Call("NeptuneListTags", d1.attrs.arn, e.list)
         IN IF ReadTagsSupported(m)
            THEN IF e.list # NoError
                 THEN Result(d1, TRUE, <<find, list>>, dd, TRUE)
                 ELSE Result([d1 EXCEPT !.attrs = SetListedTags(d1.attrs, e.listed, m)],
                             FALSE, <<find, list>>, dd, TRUE)
            ELSE Result([d1 EXCEPT !.attrs = SetNilTags(d1.attrs)],
                        FALSE, <<find>>, dd, TRUE)

----------------------------------------------------------------------------
(* resourceAwsNeptuneClusterEndpointCreate *)

\* line 94: tags go into the request when there are any, in AWS Commercial only
CreateSendsTags(tags, m) == tags # {} /\ m.partition = AwsPartitionID

\* lines 77-96: the CreateDBClusterEndpointInput; present names the optional
\* fields that are set
CreateDBClusterEndpointInput(dd, m) ==
    LET tags == MergeTags(m.defaultTags, dd.attrs.tags)
        static == dd.attrs.static_members
        excluded == dd.attrs.excluded_members
    IN [DBClusterEndpointIdentifier |-> dd.attrs.cluster_endpoint_identifier,
        DBClusterIdentifier |-> dd.attrs.cluster_identifier,
        EndpointType |-> dd.attrs.endpoint_type,
        present |-> (IF Cardinality(static) > 0 THEN {"StaticMembers"} ELSE {})
                    \cup (IF Cardinality(excluded) > 0 THEN {"ExcludedMembers"} ELSE {})
                    \cup (IF CreateSendsTags(tags, m) THEN {"Tags"} ELSE {}),
        StaticMembers |-> IF Cardinality(static) > 0 THEN expandStringSet(static) ELSE {},
        ExcludedMembers |-> IF Cardinality(excluded) > 0 THEN expandStringSet(excluded) ELSE {},
        Tags |-> IF CreateSendsTags(tags, m) THEN IgnoreAws(tags) ELSE {}]

\* a variant of ClusterEndpointId with the two identifiers swapped
ClusterEndpointId_Swapped(clusterId, endpointId) == endpointId \o ":" \o clusterId

\* line 105: fmt.Sprintf("%s:%s", clusterId, endpointId)
ClusterEndpointId(clusterId, endpointId) == clusterId \o ":" \o endpointId

\* a variant of CreateWaitFailed that ignores the poll's error
CreateWaitFailed_Ignored(err) == FALSE

\* lines 108-110: the availability poll failed
CreateWaitFailed(err) == err # NoError

resourceAwsNeptuneClusterEndpointCreate(dd, m, e) ==
    LET input == CreateDBClusterEndpointInput(dd, m)
        create == Call("CreateDBClusterEndpoint", input.DBClusterEndpointIdentifier, e.create)
    IN IF e.create # NoError
       THEN Result(dd, TRUE, <<create>>, dd, FALSE)
       ELSE
         LET d1 == SetId(dd, ClusterEndpointId(e.out.DBClusterIdentifier,
                                               e.out.DBClusterEndpointIdentifier))
             wait == Call("waiter.DBClusterEndpointAvailable", d1.id, e.wait)
         IN IF CreateWaitFailed(e.wait)
            THEN Result(d1, TRUE, <<create, wait>>, d1, FALSE)
            ELSE LET r == resourceAwsNeptuneClusterEndpointRead(d1, m, e.read)
                 IN [r EXCEPT !.calls = <<create, wait>> \o r.calls]

----------------------------------------------------------------------------
(* resourceAwsNeptuneClusterEndpointUpdate *)

\* d.HasChange
HasChange(ch, key) == key \in ch

\* d.HasChangesExcept
HasChangesExcept(ch, keys) == \E key \in ch : key \notin keys

NoInput == [present |-> {}]

\* a variant of ModifyDBClusterEndpointInput that always sends the static members
ModifyDBClusterEndpointInput_AlwaysStatic(dd, ch) ==
    [DBClusterEndpointIdentifier |-> dd.attrs.cluster_endpoint_identifier,
     present |-> (IF HasChange(ch, "endpoint_type") THEN {"EndpointType"} ELSE {})
                 \cup {"StaticMembers"}
                 \cup (IF HasChange(ch, "excluded_members") THEN {"ExcludedMembers"} ELSE {}),
     EndpointType |-> IF HasChange(ch, "endpoint_type") THEN dd.attrs.endpoint_type ELSE "",
     StaticMembers |-> expandStringSet(dd.attrs.static_members),
     ExcludedMembers |-> IF HasChange(ch, "excluded_members")
                         THEN expandStringSet(dd.attrs.excluded_members) ELSE {}]

\* lines 172-186: the ModifyDBClusterEndpointInput; present names the optional
\* fields that are set
ModifyDBClusterEndpointInput(dd, ch) ==
    [DBClusterEndpointIdentifier |-> dd.attrs.cluster_endpoint_identifier,
     present |-> (IF HasChange(ch, "endpoint_type") THEN {"EndpointType"} ELSE {})
                 \cup (IF HasChange(ch, "static_members") THEN {"StaticMembers"} ELSE {})
                 \cup (IF HasChange(ch, "excluded_members") THEN {"ExcludedMembers"} ELSE {}),
     EndpointType |-> IF HasChange(ch, "endpoint_type") THEN dd.attrs.endpoint_type ELSE "",
     StaticMembers |-> IF HasChange(ch, "static_members")
                       THEN expandStringSet(dd.attrs.static_members) ELSE {},
     ExcludedMembers |-> IF HasChange(ch, "excluded_members")
                         THEN expandStringSet(dd.attrs.excluded_members) ELSE {}]

\* line 171: a modify request is needed
UpdateModifies(ch) == HasChangesExcept(ch, {"tags", "tags_all"})

\* a variant of UpdateWaitFailed that ignores the poll's error
UpdateWaitFailed_Ignored(err) == FALSE

\* lines 194-196: the availability poll failed
UpdateWaitFailed(err) == err # NoError

\* line 200: tags are updated when tags_all changed, in AWS Commercial only
UpdateSendsTags(ch, m) == HasChange(ch, "tags_all") /\ m.partition = AwsPartitionID

\* lines 199-208: the tag update, then the Read
UpdateTagsAndRead(dd, m, ch, e, calls) ==
    LET upd == Call("NeptuneUpdateTags", dd.attrs.arn, e.tagsUpd)
        calls1 == IF UpdateSendsTags(ch, m) THEN Append(calls, upd) ELSE calls
    IN IF UpdateSendsTags(ch, m) /\ e.tagsUpd # NoError
       THEN Result(dd, TRUE, calls1, dd, FALSE)
       ELSE LET r == resourceAwsNeptuneClusterEndpointRead(dd, m, e.read)
            IN [r EXCEPT !.calls = calls1 \o r.calls]

resourceAwsNeptuneClusterEndpointUpdate(dd, m, ch, e) ==
    LET req == ModifyDBClusterEndpointInput(dd, ch)
        modify == Call("ModifyDBClusterEndpoint", req.DBClusterEndpointIdentifier, e.modify)
        wait == Call("waiter.DBClusterEndpointAvailable", dd.id, e.wait)
    IN IF UpdateModifies(ch)
       THEN IF e.modify # NoError
            THEN Result(dd, TRUE, <<modify>>, dd, FALSE)
            ELSE IF UpdateWaitFailed(e.wait)
            THEN Result(dd, TRUE, <<modify, wait>>, dd, FALSE)
            ELSE UpdateTagsAndRead(dd, m, ch, e, <<modify, wait>>)
       ELSE UpdateTagsAndRead(dd, m, ch, e, <<>>)

----------------------------------------------------------------------------
(* resourceAwsNeptuneClusterEndpointDelete *)

\* a variant of DeleteRequestTolerated that tolerates the endpoint code alone
DeleteRequestTolerated_EndpointOnly(err) ==
    ErrCodeEquals(err, ErrCodeDBClusterEndpointNotFoundFault)

\* lines 221-222: the endpoint or its cluster is already gone
DeleteRequestTolerated(err) ==
    \/ ErrCodeEquals(err, ErrCodeDBClusterEndpointNotFoundFault)
    \/ ErrCodeEquals(err, ErrCodeDBClusterNotFoundFault)

\* a variant of DeleteWaitTolerated that tolerates the cluster code too
DeleteWaitTolerated_ClusterToo(err) ==
    \/ ErrCodeEquals(err, ErrCodeDBClusterEndpointNotFoundFault)
    \/ ErrCodeEquals(err, ErrCodeDBClusterNotFoundFault)

\* line 229: the poll found the endpoint gone
DeleteWaitTolerated(err) == ErrCodeEquals(err, ErrCodeDBClusterEndpointNotFoundFault)

resourceAwsNeptuneClusterEndpointDelete(dd, m, e) ==
    LET del == Call("DeleteDBClusterEndpoint", dd.attrs.cluster_endpoint_identifier, e.del)
        wait == Call("waiter.DBClusterEndpointDeleted", dd.id, e.delWait)
    IN IF e.del # NoError
       THEN Result(dd, ~DeleteRequestTolerated(e.del), <<del>>, dd, FALSE)
       ELSE IF e.delWait # NoError
       THEN Result(dd, ~DeleteWaitTolerated(e.delWait), <<del, wait>>, dd, FALSE)
       ELSE Result(dd, FALSE, <<del, wait>>, dd, FALSE)

----------------------------------------------------------------------------
(* The framework: schema.Resource runs one callback at a time *)

Metas ==
    [partition : Partitions, defaultTags : DefaultTagMaps, ignoreTags : {IgnoreTagKeys}]

NoLast ==
    [op |-> "none", pre |-> NoResource, changed |-> {}, env |-> NoEnv,
     input |-> NoInput, res |-> Result(NoResource, FALSE, <<>>, NoResource, FALSE)]

Ran(op, pre, ch, e, input, r) ==
    [op |-> op, pre |-> pre, changed |-> ch, env |-> e, input |-> input, res |-> r]

\* the state the framework keeps after a callback: none without an ID
Persist(dd) == IF dd.id = "" THEN NoResource ELSE [dd EXCEPT !.isNew = FALSE]

\* the member sets a configuration can name
ConfigMembers == {sx \in MemberSets \X MemberSets : sx[1] = {} \/ sx[2] = {}}

\* what terraform import is given as an ID
ImportIds == {"c1:e1", "c2:e2"}

CreateEnvs ==
    {[NoEnv EXCEPT !.create = c, !.out = CreateOutput(p), !.wait = w, !.read = re] :
        c \in CallErrors, p \in IdPairs \cup {<<"", "">>}, w \in CallErrors,
        re \in ReadEnvs \cup {NoReadEnv}}

UpdateEnvs ==
    {[NoEnv EXCEPT !.modify = c, !.wait = w, !.tagsUpd = u, !.read = re] :
        c \in CallErrors, w \in CallErrors, u \in CallErrors,
        re \in ReadEnvs \cup {NoReadEnv}}

ReadOnlyEnvs == {[NoEnv EXCEPT !.read = re] : re \in ReadEnvs}

DeleteEnvs ==
    {[NoEnv EXCEPT !.del = c, !.delWait = w] : c \in DeleteErrors, w \in DeleteErrors}

Init ==
    /\ meta \in Metas
    /\ d = NoResource
    /\ phase = "idle"
    /\ changed = {}
    /\ last = NoLast

\* the framework plans a create: the configuration fills the data, which is
\* marked new (MarkNewResource); SetTagsDiff plans tags_all
PlanCreate ==
    /\ phase = "idle"
    /\ d.id = ""
    /\ \E p \in IdPairs, t \in EndpointTypes, sx \in ConfigMembers, tg \in ConfigTagMaps :
          d' = [id |-> "", isNew |-> TRUE,
                attrs |-> [NoAttrs EXCEPT
                    !.cluster_identifier = p[1],
                    !.cluster_endpoint_identifier = p[2],
                    !.endpoint_type = t,
                    !.static_members = sx[1],
                    !.excluded_members = sx[2],
                    !.tags = tg,
                    !.tags_all = MergeTags(meta.defaultTags, tg)]]
    /\ phase' = "create"
    /\ UNCHANGED <<meta, changed, last>>

Create ==
    /\ phase = "create"
    /\ \E e \in CreateEnvs :
          LET r == resourceAwsNeptuneClusterEndpointCreate(d, meta, e)
          IN /\ Asked(e, r)
             /\ d' = r.d
             /\ last' = Ran("Create", d, {}, e, CreateDBClusterEndpointInput(d, meta), r)
    /\ phase' = "ran"
    /\ UNCHANGED <<meta, changed>>

\* schema.ImportStatePassthrough: the given ID becomes the resource ID, and the
\* framework reads the resource
Import ==
    /\ phase = "idle"
    /\ d.id = ""
    /\ \E id \in ImportIds : d' = SetId(NoResource, id)
    /\ phase' = "import"
    /\ UNCHANGED <<meta, changed, last>>

Read ==
    /\ phase \in {"idle", "import"}
    /\ d.id # ""
    /\ \E e \in ReadOnlyEnvs :
          LET r == resourceAwsNeptuneClusterEndpointRead(d, meta, e.read)
          IN /\ Asked(e, r)
             /\ d' = r.d
             /\ last' = Ran("Read", d, {}, e, NoInput, r)
    /\ phase' = IF phase = "import" THEN "imported" ELSE "ran"
    /\ UNCHANGED <<meta, changed>>

\* the framework plans an update: the new configuration fills the data and the
\* diff names what changed; SetTagsDiff plans tags_all.  The identifiers and
\* endpoint_type are ForceNew (lines 37, 43, 53): a change of one of them
\* replaces the resource, it never reaches Update
PlanUpdate ==
    /\ phase = "idle"
    /\ d.id # ""
    /\ \E sx \in ConfigMembers, tg \in ConfigTagMaps :
          LET new == [d.attrs EXCEPT
                         !.static_members = sx[1],
                         !.excluded_members = sx[2],
                         !.tags = tg,
                         !.tags_all = MergeTags(meta.defaultTags, tg)]
              ch == {k \in DOMAIN new : new[k] # d.attrs[k]}
          IN /\ ch # {}
             /\ d' = [d EXCEPT !.attrs = new]
             /\ changed' = ch
    /\ phase' = "update"
    /\ UNCHANGED <<meta, last>>

Update ==
    /\ phase = "update"
    /\ \E e \in UpdateEnvs :
          LET r == resourceAwsNeptuneClusterEndpointUpdate(d, meta, changed, e)
          IN /\ Asked(e, r)
             /\ d' = r.d
             /\ last' = Ran("Update", d, changed, e,
                            IF UpdateModifies(changed)
                            THEN ModifyDBClusterEndpointInput(d, changed) ELSE NoInput, r)
    /\ phase' = "ran"
    /\ changed' = {}
    /\ UNCHANGED meta

Delete ==
    /\ phase = "idle"
    /\ d.id # ""
    /\ \E e \in DeleteEnvs :
          LET r == resourceAwsNeptuneClusterEndpointDelete(d, meta, e)
          IN /\ Asked(e, r)
             /\ d' = r.d
             /\ last' = Ran("Delete", d, {}, e, NoInput, r)
    /\ phase' = "ran"
    /\ UNCHANGED <<meta, changed>>

\* the framework takes the callback's result: it saves the data, or drops the
\* resource after a Delete that succeeded or an import whose Read failed
Save ==
    /\ phase \in {"ran", "imported"}
    /\ d' = IF \/ last.op = "Delete" /\ ~last.res.err
               \/ phase = "imported" /\ last.res.err
            THEN NoResource ELSE Persist(d)
    /\ last' = NoLast
    /\ phase' = "idle"
    /\ UNCHANGED <<meta, changed>>

Next ==
    \/ PlanCreate
    \/ Create
    \/ Import
    \/ Read
    \/ PlanUpdate
    \/ Update
    \/ Delete
    \/ Save

Spec == Init /\ [][Next]_vars

----------------------------------------------------------------------------
(* What the last callback did *)

Calls == last.res.calls
CallIdx(api) == {i \in DOMAIN Calls : Calls[i].api = api}
Made(api) == CallIdx(api) # {}
Succeeded(api) == \E i \in CallIdx(api) : Calls[i].out = NoError
Failed(api) == \E i \in CallIdx(api) : Calls[i].out # NoError
\* every call of a comes before every call of b
Before(a, b) == \A i \in CallIdx(a), j \in CallIdx(b) : i < j
\* the Read ran (alone, or at the end of Create or Update)
ReadRan == last.op # "none" /\ last.res.readRan
Commercial == meta.partition = AwsPartitionID

LookupApis ==
    {"waiter.DBClusterEndpointAvailable", "finder.EndpointById",
     "waiter.DBClusterEndpointDeleted"}

----------------------------------------------------------------------------
(* C1 *)

\* C1: when the lookup of a Read reports not-found, a Read of a resource that
\* is not new clears the ID, returns success and sets no attribute; a Read of a
\* new resource returns an error and keeps the ID.
C1_ReadNotFound ==
    (ReadRan /\ last.env.read.find = NotFoundError) =>
        IF last.res.readPre.isNew
        THEN /\ last.res.err
             /\ last.res.d.id = last.res.readPre.id
             /\ last.res.d.id # ""
        ELSE /\ ~last.res.err
             /\ last.res.d.id = ""
             /\ last.res.d.attrs = last.res.readPre.attrs

\* a Read of a resource that is not new found nothing and cleared the ID
C1_Witness ==
    /\ last.op = "Read"
    /\ last.env.read.find = NotFoundError
    /\ last.pre.id # ""
    /\ last.res.d.id = ""
    /\ last.pre.attrs # NoAttrs

----------------------------------------------------------------------------
(* C2 *)

\* C2: a delete request that fails with the endpoint-not-found or the
\* cluster-not-found code makes Delete return success without polling; a
\* request that fails with any other error makes it return an error without
\* polling.
C2_DeleteRequestNotFound ==
    (last.op = "Delete" /\ Failed("DeleteDBClusterEndpoint")) =>
        /\ ~Made("waiter.DBClusterEndpointDeleted")
        /\ Len(Calls) = 1
        /\ last.res.err <=>
              last.env.del \notin {ErrCodeDBClusterEndpointNotFoundFault,
                                   ErrCodeDBClusterNotFoundFault}

\* the delete request found the cluster gone and Delete succeeded
C2_Witness ==
    /\ last.op = "Delete"
    /\ last.env.del = ErrCodeDBClusterNotFoundFault
    /\ ~last.res.err

----------------------------------------------------------------------------
(* C3 *)

\* C3: Create makes exactly one create request, first; it polls for the
\* available status only after the request succeeded and reads only after the
\* poll succeeded; it returns success only if request, poll and Read succeeded.
C3_CreateOrder ==
    last.op = "Create" =>
        /\ CallIdx("CreateDBClusterEndpoint") = {1}
        /\ CallIdx("waiter.DBClusterEndpointAvailable") \subseteq {2}
        /\ Made("waiter.DBClusterEndpointAvailable") => Calls[1].out = NoError
        /\ CallIdx("finder.EndpointById") \subseteq {3}
        /\ Made("finder.EndpointById") =>
              /\ Calls[2].api = "waiter.DBClusterEndpointAvailable"
              /\ Calls[2].out = NoError
        /\ last.res.readRan <=> Made("finder.EndpointById")
        /\ ~last.res.err =>
              /\ Succeeded("CreateDBClusterEndpoint")
              /\ Succeeded("waiter.DBClusterEndpointAvailable")
              /\ Succeeded("finder.EndpointById")
              /\ \A i \in DOMAIN Calls : Calls[i].out = NoError

\* a Create that succeeded
C3_Witness ==
    /\ last.op = "Create"
    /\ ~last.res.err
    /\ Len(Calls) >= 3

----------------------------------------------------------------------------
(* C4 *)

\* C4: Update sends a modify request exactly when an attribute other than tags
\* and tags_all changed; the request carries the endpoint identifier, and
\* endpoint_type, static_members, excluded_members each exactly when changed;
\* a modify request that succeeded is followed by the availability poll, before
\* any tag update or lookup; with only tags changed there is no request and no
\* poll.
C4_UpdateModify ==
    last.op = "Update" =>
        /\ Made("ModifyDBClusterEndpoint") <=>
              (last.changed \ {"tags", "tags_all"}) # {}
        /\ ~Made("ModifyDBClusterEndpoint") =>
              ~Made("waiter.DBClusterEndpointAvailable")
        /\ Made("ModifyDBClusterEndpoint") =>
              /\ CallIdx("ModifyDBClusterEndpoint") = {1}
              /\ Calls[1].arg = last.pre.attrs.cluster_endpoint_identifier
              /\ last.input.DBClusterEndpointIdentifier =
                    last.pre.attrs.cluster_endpoint_identifier
              /\ "EndpointType" \in last.input.present <=>
                    "endpoint_type" \in last.changed
              /\ "StaticMembers" \in last.input.present <=>
                    "static_members" \in last.changed
              /\ "ExcludedMembers" \in last.input.present <=>
                    "excluded_members" \in last.changed
              /\ "StaticMembers" \in last.input.present =>
                    last.input.StaticMembers = last.pre.attrs.static_members
              /\ "ExcludedMembers" \in last.input.present =>
                    last.input.ExcludedMembers = last.pre.attrs.excluded_members
        /\ Succeeded("ModifyDBClusterEndpoint") =>
              /\ CallIdx("waiter.DBClusterEndpointAvailable") = {2}
              /\ Before("waiter.DBClusterEndpointAvailable", "NeptuneUpdateTags")
              /\ Before("waiter.DBClusterEndpointAvailable", "finder.EndpointById")

\* an Update whose modify request carried the static members alone, and went on
C4_Witness ==
    /\ last.op = "Update"
    /\ Succeeded("ModifyDBClusterEndpoint")
    /\ last.input.present = {"StaticMembers"}
    /\ Made("finder.EndpointById")

----------------------------------------------------------------------------
(* C5 *)

\* every poll and lookup of the last callback is keyed by the resource ID: the
\* one Create has just set, or the one the callback started with; only Create
\* sets an ID, and only a Read clears one
LookupsUseId ==
    /\ \A i \in DOMAIN Calls :
          Calls[i].api \in LookupApis =>
              Calls[i].arg = IF last.op = "Create" THEN last.res.d.id ELSE last.pre.id
    /\ last.op \in {"Read", "Update", "Delete"} =>
          /\ last.pre.id # ""
          /\ last.res.d.id \in {last.pre.id, ""}

\* C5 (as stated): after the create request succeeds the resource ID is the
\* cluster identifier of the response followed directly by its endpoint
\* identifier, and every later poll and lookup is keyed by that ID.
C5_IdConcatenation ==
    /\ (last.op = "Create" /\ Succeeded("CreateDBClusterEndpoint")) =>
          last.res.d.id =
              last.env.out.DBClusterIdentifier \o last.env.out.DBClusterEndpointIdentifier
    /\ LookupsUseId

\* C5 (amended): after the create request succeeds the resource ID is the
\* cluster identifier of the response, a colon, and its endpoint identifier;
\* a failed create request leaves the ID empty; every later poll and lookup is
\* keyed by the resource ID.
C5_IdComposite ==
    /\ (last.op = "Create" /\ Succeeded("CreateDBClusterEndpoint")) =>
          last.res.d.id =
              last.env.out.DBClusterIdentifier \o ":"
                  \o last.env.out.DBClusterEndpointIdentifier
    /\ (last.op = "Create" /\ Failed("CreateDBClusterEndpoint")) => last.res.d.id = ""
    /\ LookupsUseId

\* a Create whose response named another endpoint than the configuration, and
\* whose poll and lookup were keyed by the ID made from the response
C5_Witness ==
    /\ last.op = "Create"
    /\ Succeeded("CreateDBClusterEndpoint")
    /\ last.env.out.DBClusterIdentifier # last.pre.attrs.cluster_identifier
    /\ Made("finder.EndpointById")
    /\ last.res.d.id = "c2:e2"

----------------------------------------------------------------------------
(* C6 *)

\* Create and Update make no request twice, and stop at a failed call
NoCallAfterFailure ==
    /\ \A i \in DOMAIN Calls : Calls[i].out # NoError => i = Len(Calls)
    /\ \A i, j \in DOMAIN Calls : Calls[i].api = Calls[j].api => i = j
    /\ ~Made("DeleteDBClusterEndpoint")

\* what is left behind by a Create or an Update that failed
FailureLeaves ==
    /\ (last.op = "Create" /\ Failed("CreateDBClusterEndpoint")) =>
          last.res.d.id = ""
    /\ (last.op = "Create" /\ Failed("waiter.DBClusterEndpointAvailable")) =>
          /\ last.res.d.id # ""
          /\ last.res.d.id = Calls[2].arg
    /\ (last.op = "Update" /\ (Failed("ModifyDBClusterEndpoint")
                               \/ Failed("waiter.DBClusterEndpointAvailable"))) =>
          /\ ~Made("NeptuneUpdateTags")
          /\ ~Made("finder.EndpointById")
          /\ ~last.res.readRan

\* C6 (as stated): in Create and Update, once any call fails the callback
\* returns an error and makes no further call; a failed poll in Create makes no
\* delete request and leaves the ID set, a failed create request leaves it
\* unset, a failed modify request or poll in Update skips the tag update and
\* the Read, and no request is made twice.
C6_EveryFailureIsAnError ==
    last.op \in {"Create", "Update"} =>
        /\ NoCallAfterFailure
        /\ FailureLeaves
        /\ (\E i \in DOMAIN Calls : Calls[i].out # NoError) => last.res.err

\* C6 (amended): as stated, except that in Update the final Read's lookup
\* reporting not-found is not an error: Update then clears the ID and returns
\* success, still making no further call.
C6_FailurePropagates ==
    last.op \in {"Create", "Update"} =>
        /\ NoCallAfterFailure
        /\ FailureLeaves
        /\ \A i \in DOMAIN Calls :
              Calls[i].out # NoError =>
                  IF last.op = "Update" /\ Calls[i].api = "finder.EndpointById"
                     /\ Calls[i].out = NotFoundError
                  THEN ~last.res.err /\ last.res.d.id = ""
                  ELSE last.res.err

\* an Update whose poll failed after the modify request, with tags to update
C6_Witness ==
    /\ last.op = "Update"
    /\ Succeeded("ModifyDBClusterEndpoint")
    /\ Failed("waiter.DBClusterEndpointAvailable")
    /\ "tags_all" \in last.changed
    /\ Commercial
    /\ last.res.err

----------------------------------------------------------------------------
(* C7 *)

\* C7: a Read that finds the endpoint and returns success leaves each of
\* cluster_endpoint_identifier, cluster_identifier, endpoint_type, endpoint,
\* excluded_members, static_members and arn equal to the describe response,
\* and the resource ID as it was; so it is after a successful Create, Update or
\* import followed by Read.
C7_ReadReconciles ==
    (ReadRan /\ ~last.res.err /\ Succeeded("finder.EndpointById")) =>
        LET a == last.res.d.attrs
            resp == last.env.read.resp
        IN /\ a.cluster_endpoint_identifier = resp.DBClusterEndpointIdentifier
           /\ a.cluster_identifier = resp.DBClusterIdentifier
           /\ a.endpoint_type = resp.CustomEndpointType
           /\ a.endpoint = resp.Endpoint
           /\ a.excluded_members = {resp.ExcludedMembers[i] : i \in DOMAIN resp.ExcludedMembers}
           /\ a.static_members = {resp.StaticMembers[i] : i \in DOMAIN resp.StaticMembers}
           /\ a.arn = resp.DBClusterEndpointArn
           /\ last.res.d.id = last.res.readPre.id
           /\ last.res.d.id # ""

\* an Update whose Read found members other than the planned ones
C7_Witness ==
    /\ last.op = "Update"
    /\ ~last.res.err
    /\ Succeeded("finder.EndpointById")
    /\ last.res.d.attrs.excluded_members # last.pre.attrs.excluded_members
    /\ last.res.d.attrs.endpoint_type # last.pre.attrs.endpoint_type
    /\ last.res.d.attrs.arn # last.pre.attrs.arn

----------------------------------------------------------------------------
(* C8 *)

\* outside AWS Commercial no tag is sent, listed, kept or updated
NoTagsOutsideCommercial ==
    ~Commercial =>
        /\ last.op = "Create" => "Tags" \notin last.input.present
        /\ ~Made("NeptuneListTags")
        /\ ~Made("NeptuneUpdateTags")
        /\ (ReadRan /\ ~last.res.err /\ Succeeded("finder.EndpointById")) =>
              /\ last.res.d.attrs.tags = {}
              /\ last.res.d.attrs.tags_all = {}

\* in AWS Commercial Create sends tags exactly when the merged map is not empty
CreateTagsInCommercial ==
    (Commercial /\ last.op = "Create") =>
        ("Tags" \in last.input.present <=>
            ({p \in meta.defaultTags : p[1] \notin Keys(last.pre.attrs.tags)}
                \cup last.pre.attrs.tags) # {})

\* C8 (as stated): tags are touched in AWS Commercial only; there, Create sends
\* tags exactly when the merged map is not empty, Update calls the tag update
\* exactly when tags_all changed, and Read sets tags_all to the listed tags and
\* tags to the listed tags without the provider defaults.
C8_TagsAsListed ==
    /\ NoTagsOutsideCommercial
    /\ CreateTagsInCommercial
    /\ (Commercial /\ last.op = "Update") =>
          (Made("NeptuneUpdateTags") <=> "tags_all" \in last.changed)
    /\ (Commercial /\ ReadRan /\ ~last.res.err /\ Succeeded("finder.EndpointById")) =>
          /\ last.res.d.attrs.tags_all = last.env.read.listed
          /\ last.res.d.attrs.tags = last.env.read.listed \ meta.defaultTags

\* C8 (amended): tags are touched in AWS Commercial only; there, Create sends
\* tags exactly when the merged map is not empty, Update calls the tag update
\* exactly when tags_all changed and no modify request or poll failed before it,
\* and Read sets tags_all to the listed tags without the aws: tags and the tags
\* the provider ignores, and tags to those without the provider defaults.
C8_TagsCommercialOnly ==
    /\ NoTagsOutsideCommercial
    /\ CreateTagsInCommercial
    /\ (Commercial /\ last.op = "Update") =>
          (Made("NeptuneUpdateTags") <=>
              /\ "tags_all" \in last.changed
              /\ ~Failed("ModifyDBClusterEndpoint")
              /\ ~Failed("waiter.DBClusterEndpointAvailable"))
    /\ (Commercial /\ ReadRan /\ ~last.res.err /\ Succeeded("finder.EndpointById")) =>
          LET kept == {p \in last.env.read.listed :
                          /\ p[1] \notin meta.ignoreTags
                          /\ p[1] # AwsTagKeyPrefix \o "s"}
          IN /\ Succeeded("NeptuneListTags")
             /\ last.res.d.attrs.tags_all = kept
             /\ last.res.d.attrs.tags = kept \ meta.defaultTags

\* a Read in AWS Commercial that listed a provider default tag
C8_Witness ==
    /\ Commercial
    /\ last.op = "Read"
    /\ ~last.res.err
    /\ Succeeded("NeptuneListTags")
    /\ last.env.read.listed # {}
    /\ last.res.d.attrs.tags_all = last.env.read.listed
    /\ last.res.d.attrs.tags = {}

----------------------------------------------------------------------------
(* C9 *)

\* C9: Delete returns success only when the delete request found the endpoint
\* or its cluster gone, or when the request succeeded and the deletion poll
\* completed or failed with the endpoint-not-found code; any other error of the
\* poll, a cluster-not-found code included, makes Delete return an error.
C9_DeleteSuccessMeansGone ==
    last.op = "Delete" =>
        /\ ~last.res.err =>
              \/ /\ Len(Calls) = 1
                 /\ Calls[1].api = "DeleteDBClusterEndpoint"
                 /\ Calls[1].out \in {ErrCodeDBClusterEndpointNotFoundFault,
                                      ErrCodeDBClusterNotFoundFault}
              \/ /\ Len(Calls) = 2
                 /\ Calls[1] = Call("DeleteDBClusterEndpoint",
                                    last.pre.attrs.cluster_endpoint_identifier, NoError)
                 /\ Calls[2].api = "waiter.DBClusterEndpointDeleted"
                 /\ Calls[2].out \in {NoError, ErrCodeDBClusterEndpointNotFoundFault}
        /\ (Made("waiter.DBClusterEndpointDeleted")
            /\ last.env.delWait \notin {NoError, ErrCodeDBClusterEndpointNotFoundFault})
              => last.res.err
        /\ last.res.d = last.pre

\* the deletion poll found the endpoint gone and Delete succeeded
C9_Witness ==
    /\ last.op = "Delete"
    /\ Succeeded("DeleteDBClusterEndpoint")
    /\ last.env.delWait = ErrCodeDBClusterEndpointNotFoundFault
    /\ ~last.res.err

----------------------------------------------------------------------------
(* C10 *)

\* C10 (as stated): a Read that returns an error, because the lookup or the
\* listing of tags failed, leaves the resource ID and every attribute as they
\* were before the Read.
C10_ReadErrorChangesNothing ==
    (ReadRan /\ last.res.err) => last.res.d = last.res.readPre

\* C10 (amended): a Read whose lookup failed returns an error and leaves the ID
\* and every attribute as they were; a Read whose listing of tags failed
\* returns an error and leaves the ID, tags and tags_all as they were, the
\* other attributes already set from the describe response.
C10_ReadErrorFrame ==
    /\ (ReadRan /\ last.res.err) =>
          /\ Failed("finder.EndpointById") \/ Failed("NeptuneListTags")
          /\ last.res.d.id = last.res.readPre.id
          /\ last.res.d.isNew = last.res.readPre.isNew
          /\ last.res.d.attrs.tags = last.res.readPre.attrs.tags
          /\ last.res.d.attrs.tags_all = last.res.readPre.attrs.tags_all
          /\ Failed("finder.EndpointById") => last.res.d = last.res.readPre
          /\ Failed("NeptuneListTags") =>
                /\ last.res.d.attrs.arn = last.env.read.resp.DBClusterEndpointArn
                /\ last.res.d.attrs.endpoint = last.env.read.resp.Endpoint
                /\ last.res.d.attrs.endpoint_type = last.env.read.resp.CustomEndpointType
    /\ (ReadRan /\ Failed("NeptuneListTags")) => last.res.err
    /\ (ReadRan /\ Failed("finder.EndpointById")
        /\ ~(last.env.read.find = NotFoundError /\ ~last.res.readPre.isNew)) => last.res.err

\* a Read whose listing of tags failed after the attributes were set
C10_Witness ==
    /\ last.op = "Read"
    /\ Failed("NeptuneListTags")
    /\ last.res.err
    /\ last.res.d.attrs # last.pre.attrs
    /\ last.pre.attrs.tags_all # {}

====
